---- MODULE Spec2Model ----
(***************************************************************************)
(* Model of gestion_notas.py: the session state (the roster of students    *)
(* and the per-name modification counter) and the operations on it: the    *)
(* add form, the modify form, delete_student, reset_all_data, get_stats.   *)
(*                                                                         *)
(* Names are sequences of characters, so that str.lower() is a real        *)
(* conversion.  Grades are counted in tenths (1.0 is 10, 5.0 is 50), the   *)
(* step of the number inputs.  The mean is kept as the exact fraction      *)
(* sum / count.                                                            *)
(***************************************************************************)
EXTENDS Integers, Sequences, FiniteSets, TLC

\* students, modification_attempts: the two entries of st.session_state.
\* applied: history variable, for each stored name the number of modifications
\*   stored since that record was appended (the program keeps no such count).
\* lastOp, result, remaining, stats: the operation of the latest run, the
\*   message it showed, the remaining-attempts number and the statistics.
VARIABLES students, modification_attempts, applied, lastOp, result, remaining, stats

vars == <<students, modification_attempts, applied, lastOp, result, remaining, stats>>

(* ---------------------------- bounds ---------------------------------- *)

\* the roster is unbounded in the program; the add form is capped here
MaxStudents == 2

(* ------------------------ program constants ---------------------------- *)

MODIFICATION_LIMIT == 3

GradeMin == 10

GradeMax == 50

None == 0

(* ------------------------------ inputs -------------------------------- *)

\* the two ends of the range the number inputs accept
Grades == {GradeMin, GradeMax}

\* what can be typed in the name field: nothing, a blank, and two students
\* of which one in both letter cases
Names == { <<>>, <<" ">>, <<"a">>, <<"A">>, <<"b">> }

(* ------------------------------ helpers -------------------------------- *)

LowerChar(c) == CASE c = "A" -> "a" [] c = "B" -> "b" [] OTHER -> c

\* str.lower()
lower(name) == [i \in 1..Len(name) |-> LowerChar(name[i])]

Min(S) == CHOOSE x \in S : \A y \in S : x <= y

Max(S) == CHOOSE x \in S : \A y \in S : x >= y

find_exact(roster, name) ==
    LET m == {i \in 1..Len(roster) : roster[i].nombre = name}
    IN  IF m = {} THEN None ELSE Min(m)

\* index of the first student whose name equals name after lower(), or None
find_student_index(roster, name) ==
    LET m == {i \in 1..Len(roster) : lower(roster[i].nombre) = lower(name)}
    IN  IF m = {} THEN None ELSE Min(m)

\* modification_attempts.get(name, 0)
attempts_get(map, name) == IF name \in DOMAIN map THEN map[name] ELSE 0

\* map[name] = value
map_set(map, name, value) ==
    [k \in DOMAIN map \cup {name} |-> IF k = name THEN value ELSE map[k]]

\* if name in map: del map[name]
map_del(map, name) == [k \in DOMAIN map \ {name} |-> map[k]]

pop_last(roster, i) == SubSeq(roster, 1, Len(roster) - 1)

\* list.pop(i)
pop(roster, i) == SubSeq(roster, 1, i - 1) \o SubSeq(roster, i + 1, Len(roster))

limit_reached_off_by_one(attempts) == attempts > MODIFICATION_LIMIT

\* attempts >= MODIFICATION_LIMIT
limit_reached(attempts) == attempts >= MODIFICATION_LIMIT

next_attempts_double(attempts) == attempts + 2

\* attempts + 1, the value stored after a modification
next_attempts(attempts) == attempts + 1

remaining_before_update(attempts) == MODIFICATION_LIMIT - attempts

\* MODIFICATION_LIMIT - (attempts + 1), the number shown after a modification
remaining_attempts(attempts) == MODIFICATION_LIMIT - (attempts + 1)

RECURSIVE sum_notes(_)
sum_notes(notes) == IF notes = <<>> THEN 0 ELSE Head(notes) + sum_notes(Tail(notes))

ZeroStats == [average |-> [num |-> 0, den |-> 1], high |-> 0, low |-> 0]

get_stats_first_as_high(roster) ==
    IF roster = <<>> THEN ZeroStats
    ELSE LET notes == [i \in 1..Len(roster) |-> roster[i].nota]
         IN  [average |-> [num |-> sum_notes(notes), den |-> Len(notes)],
              high    |-> notes[1],
              low     |-> Min({notes[i] : i \in 1..Len(notes)})]

\* np.mean, np.max and np.min of the grades; zeros for the empty roster
get_stats(roster) ==
    IF roster = <<>> THEN ZeroStats
    ELSE LET notes == [i \in 1..Len(roster) |-> roster[i].nota]
         IN  [average |-> [num |-> sum_notes(notes), den |-> Len(notes)],
              high    |-> Max({notes[i] : i \in 1..Len(notes)}),
              low     |-> Min({notes[i] : i \in 1..Len(notes)})]

NoOutput == -1

(* ------------------------------- state --------------------------------- *)

Init ==
    /\ students = <<>>
    /\ modification_attempts = [k \in {} |-> 0]
    /\ applied = [k \in {} |-> 0]
    /\ lastOp = [op |-> "start", name |-> <<>>, grade |-> 0]
    /\ result = "Started"
    /\ remaining = NoOutput
    /\ stats = ZeroStats

(* ------------------------------ actions -------------------------------- *)

\* add_student_form submitted with (name, grade)
Add(name, grade) ==
    /\ lastOp' = [op |-> "add", name |-> name, grade |-> grade]
    /\ remaining' = NoOutput
    /\ stats' = ZeroStats
    /\ IF name = <<>>
       THEN /\ result' = "EmptyName"
            /\ UNCHANGED <<students, modification_attempts, applied>>
       ELSE IF find_student_index(students, name) # None
       THEN /\ result' = "DuplicateName"
            /\ UNCHANGED <<students, modification_attempts, applied>>
       ELSE /\ Len(students) < MaxStudents
            /\ students' = Append(students, [nombre |-> name, nota |-> grade])
            /\ applied' = map_set(applied, name, 0)
            /\ result' = "Added"
            /\ UNCHANGED modification_attempts

\* modify_student_form submitted for the name selected among the stored names
Modify(selected_name, new_grade) ==
    /\ students # <<>>
    /\ selected_name \in {students[i].nombre : i \in 1..Len(students)}
    /\ lastOp' = [op |-> "modify", name |-> selected_name, grade |-> new_grade]
    /\ stats' = ZeroStats
    /\ LET attempts == attempts_get(modification_attempts, selected_name)
       IN  IF limit_reached(attempts)
           THEN /\ result' = "LimitReached"
                /\ remaining' = NoOutput
                /\ UNCHANGED <<students, modification_attempts, applied>>
           ELSE LET current_index == find_student_index(students, selected_name)
                    current_grade == students[current_index].nota
                IN  IF new_grade = current_grade
                    THEN /\ result' = "NoChange"
                         /\ remaining' = NoOutput
                         /\ UNCHANGED <<students, modification_attempts, applied>>
                    ELSE /\ students' = [students EXCEPT ![current_index].nota = new_grade]
                         /\ modification_attempts' =
                                map_set(modification_attempts, selected_name,
                                        next_attempts(attempts))
                         /\ applied' = map_set(applied, selected_name,
                                               applied[selected_name] + 1)
                         /\ result' = "Modified"
                         /\ remaining' = remaining_attempts(attempts)

\* delete_student(name)
Delete(name) ==
    /\ lastOp' = [op |-> "delete", name |-> name, grade |-> 0]
    /\ remaining' = NoOutput
    /\ stats' = ZeroStats
    /\ LET index_to_delete == find_student_index(students, name)
       IN  IF index_to_delete # None
           THEN /\ students' = pop(students, index_to_delete)
                /\ modification_attempts' = map_del(modification_attempts, name)
                /\ applied' = [k \in DOMAIN applied \ {students[index_to_delete].nombre}
                                 |-> applied[k]]
                /\ result' = "Deleted"
           ELSE /\ result' = "NotFound"
                /\ UNCHANGED <<students, modification_attempts, applied>>

\* reset_all_data()
ResetAll ==
    /\ students' = <<>>
    /\ modification_attempts' = [k \in {} |-> 0]
    /\ applied' = [k \in {} |-> 0]
    /\ lastOp' = [op |-> "reset", name |-> <<>>, grade |-> 0]
    /\ result' = "Reset"
    /\ remaining' = NoOutput
    /\ stats' = ZeroStats

\* get_stats()
Stats ==
    /\ stats' = get_stats(students)
    /\ lastOp' = [op |-> "stats", name |-> <<>>, grade |-> 0]
    /\ result' = "Stats"
    /\ remaining' = NoOutput
    /\ UNCHANGED <<students, modification_attempts, applied>>

Next ==
    \/ \E name \in Names, grade \in Grades : Add(name, grade)
    \/ \E selected_name \in Names, new_grade \in Grades : Modify(selected_name, new_grade)
    \/ \E name \in Names : Delete(name)
    \/ ResetAll
    \/ Stats

Spec == Init /\ [][Next]_vars

(* ------------------------- vocabulary of the claims --------------------- *)

StoredNames(roster) == {roster[i].nombre : i \in 1..Len(roster)}

\* the records whose name equals name in some letter case
Matches(roster, name) == {i \in 1..Len(roster) : lower(roster[i].nombre) = lower(name)}

IsBlank(name) == \A i \in 1..Len(name) : name[i] = " "

UniqueFolded(roster) ==
    \A i, j \in 1..Len(roster) :
        i # j => lower(roster[i].nombre) # lower(roster[j].nombre)

RECURSIVE SumOver(_, _)
SumOver(roster, I) ==
    IF I = {} THEN 0
    ELSE LET i == CHOOSE x \in I : TRUE
         IN  roster[i].nota + SumOver(roster, I \ {i})

Did(op) == lastOp.op = op

(* ------------------------------- claims -------------------------------- *)

\* C1: no two records of the roster have names that are equal after case
\* folding, and an add whose name equals a stored name in any letter case is
\* answered DuplicateName and leaves the roster and the attempt map as they were.
C1_Uniqueness ==
    [][ /\ UniqueFolded(students')
        /\ (lastOp'.op = "add" /\ Matches(students, lastOp'.name) # {})
             => /\ result' = "DuplicateName"
                /\ students' = students
                /\ modification_attempts' = modification_attempts ]_vars

\* a colliding add in another letter case than the stored name
C1_Witness ==
    /\ Did("add")
    /\ result = "DuplicateName"
    /\ lastOp.name \notin StoredNames(students)
    /\ Matches(students, lastOp.name) # {}

\* C2: once MODIFICATION_LIMIT modifications have been applied to a student
\* since it was added, every further modify of that student is answered
\* LimitReached and leaves the roster and the attempt map unchanged.
C2_LimitEnforced ==
    [][ \A n \in StoredNames(students) :
          (applied[n] = MODIFICATION_LIMIT /\ lastOp'.op = "modify" /\ lastOp'.name = n)
            => /\ result' = "LimitReached"
               /\ students' = students
               /\ modification_attempts' = modification_attempts ]_vars

\* a fourth modify with a new grade, refused, while another student is present
C2_Witness ==
    /\ Did("modify")
    /\ result = "LimitReached"
    /\ lastOp.name \in DOMAIN applied
    /\ applied[lastOp.name] = MODIFICATION_LIMIT
    /\ Len(students) = 2
    /\ \E i \in 1..Len(students) :
          students[i].nombre = lastOp.name /\ students[i].nota # lastOp.grade

\* C3: the attempt count of a name (0 without an entry) decreases only in a
\* delete of that name or in a reset; a modify that stores another grade raises
\* it by exactly 1; a modify with the current grade (NoChange) leaves the count
\* and the roster unchanged.
C3_BudgetMonotonic ==
    [][ \A n \in Names :
          LET before == attempts_get(modification_attempts, n)
              after  == attempts_get(modification_attempts', n)
          IN  /\ after < before
                   => \/ lastOp'.op = "delete" /\ lastOp'.name = n
                      \/ lastOp'.op = "reset"
              /\ (lastOp'.op = "modify" /\ lastOp'.name = n /\ students' # students)
                   => after = before + 1
              /\ (lastOp'.op = "modify" /\ lastOp'.name = n /\ result' = "Modified")
                   => /\ after = before + 1
                      /\ \E i \in 1..Len(students) :
                            /\ students[i].nombre = n
                            /\ students[i].nota # lastOp'.grade
                            /\ students'[i].nota = lastOp'.grade
              /\ (lastOp'.op = "modify" /\ lastOp'.name = n /\ result' = "NoChange")
                   => /\ after = before
                      /\ students' = students
              /\ (lastOp'.op = "modify" /\ lastOp'.name = n
                    /\ before < MODIFICATION_LIMIT)
                   => (result' = "NoChange"
                         <=> \E i \in 1..Len(students) :
                                /\ students[i].nombre = n
                                /\ students[i].nota = lastOp'.grade) ]_vars

\* a NoChange on a student that was modified before
C3_Witness ==
    /\ Did("modify")
    /\ result = "NoChange"
    /\ attempts_get(modification_attempts, lastOp.name) = 2

\* C4: after a successful delete(name) the attempt map holds no entry for the
\* deleted student.
C4_DeleteResetsBudget ==
    [][ (lastOp'.op = "delete" /\ result' = "Deleted")
          => \A i \in Matches(students, lastOp'.name) :
                students[i].nombre \notin DOMAIN modification_attempts' ]_vars

\* C5: an add with an empty or blank name is answered EmptyName, and no record
\* of the roster has an empty or blank name.
C5_BlankNameRejected ==
    /\ (Did("add") /\ IsBlank(lastOp.name)) => result = "EmptyName"
    /\ \A i \in 1..Len(students) : ~IsBlank(students[i].nombre)

\* C7: get_stats changes neither the roster nor the attempt map; on the empty
\* roster it returns zeros; otherwise high is the greatest grade, low the
\* least, and average the sum of the grades over their number.
C7_Stats ==
    [][ lastOp'.op = "stats"
          => /\ students' = students
             /\ modification_attempts' = modification_attempts
             /\ IF Len(students) = 0
                THEN /\ stats'.average.num = 0
                     /\ stats'.high = 0
                     /\ stats'.low = 0
                ELSE LET I == 1..Len(students)
                     IN  /\ \E i \in I : students[i].nota = stats'.high
                         /\ \A i \in I : students[i].nota <= stats'.high
                         /\ \E i \in I : students[i].nota = stats'.low
                         /\ \A i \in I : students[i].nota >= stats'.low
                         /\ stats'.average.num = SumOver(students, I)
                         /\ stats'.average.den = Len(students)
                         /\ stats'.low * stats'.average.den <= stats'.average.num
                         /\ stats'.average.num <= stats'.high * stats'.average.den ]_vars

\* statistics of a roster of two different grades, the lower one first
C7_Witness ==
    /\ Did("stats")
    /\ Len(students) = 2
    /\ students[1].nota < students[2].nota
    /\ stats.high = students[2].nota
    /\ stats.low = students[1].nota

C9_ModifyFrame ==
    [][ (lastOp'.op = "modify" /\ result' = "Modified")
          => /\ Len(students') = Len(students)
             /\ \A k \in 1..Len(students) :
                   /\ students'[k].nombre = students[k].nombre
                   /\ students[k].nombre # lastOp'.name
                        => students'[k].nota = students[k].nota
                   /\ students[k].nombre = lastOp'.name
                        => students'[k].nota = lastOp'.grade
             /\ \A n \in Names \ {lastOp'.name} :
                   attempts_get(modification_attempts', n)
                     = attempts_get(modification_attempts, n)
             /\ remaining' = MODIFICATION_LIMIT
                               - attempts_get(modification_attempts', lastOp'.name)
             /\ remaining' \in 0..2 ]_vars

\* the third modification of a student, with another student in the roster
C9_Witness ==
    /\ Did("modify")
    /\ result = "Modified"
    /\ remaining = 0
    /\ Len(students) = 2

\* C10: every key of the attempt map is the stored name of a record of the
\* roster, with a value in 1..MODIFICATION_LIMIT.
C10_AttemptKeysInRoster ==
    \A k \in DOMAIN modification_attempts :
        /\ k \in StoredNames(students)
        /\ modification_attempts[k] \in 1..MODIFICATION_LIMIT

====
